---- MODULE Spec2Model ----
(***************************************************************************)
(* IPv6 Extension Header Option codec (src/wire/ipv6option.rs).            *)
(*                                                                         *)
(* A buffer is a sequence of bytes; offset i of the Rust slice is element  *)
(* i + 1 of the sequence.  Every function that indexes or slices the       *)
(* buffer returns a record [panic, val]: panic is TRUE when the Rust code  *)
(* would fail its bounds check ("index out of bounds").  Functions that    *)
(* write return [panic, buf] with the bytes written before the failure.    *)
(***************************************************************************)
EXTENDS Integers, Sequences, FiniteSets

(* Bounds of the model. *)
MaxLen == 4
MaxByte == 2
MaxData == 2

(* The u8 values used: the small ones and the largest one. *)
Bytes == (0 .. MaxByte) \cup {255}

(* Buffers handed to Ipv6Option::new. *)
RECURSIVE SeqsUpTo(_, _)
SeqsUpTo(S, n) ==
    IF n = 0 THEN {<<>>}
    ELSE LET shorter == SeqsUpTo(S, n - 1)
         IN  shorter \cup {Append(s, x) : s \in {t \in shorter : Len(t) = n - 1}, x \in S}

Buffers == SeqsUpTo(Bytes, MaxLen)

(* Payloads an Unknown representation may borrow. *)
DataVals == {0, 255}
Payloads == SeqsUpTo(DataVals, MaxData)

-----------------------------------------------------------------------------
(* enum Type(u8) { Pad1 = 0, PadN = 1 } with the Unknown(u8) fallback. *)
Pad1 == [tag |-> "Pad1"]
PadN == [tag |-> "PadN"]
Unknown(id) == [tag |-> "Unknown", id |-> id]

Types == {Pad1, PadN} \cup {Unknown(v) : v \in Bytes}

(* Type::from(u8) without the PadN arm *)
TypeFrom_noPadN(v) ==
    IF v = 0 THEN Pad1 ELSE Unknown(v)

(* Type::from(u8) *)
TypeFrom(v) ==
    IF v = 0 THEN Pad1
    ELSE IF v = 1 THEN PadN
    ELSE Unknown(v)

(* u8::from(Type) *)
TypeInto(t) ==
    IF t.tag = "Pad1" THEN 0
    ELSE IF t.tag = "PadN" THEN 1
    ELSE t.id

-----------------------------------------------------------------------------
(* mod field *)
TYPE == 0
LENGTH == 1
DATA(length) == [start |-> 2, end |-> length + 2]

(* Outcomes of a call. *)
Panic == [panic |-> TRUE, val |-> "index out of bounds"]
Ret(v) == [panic |-> FALSE, val |-> v]
Ok == "Ok"
Truncated == "Truncated"

(* data[i] on a slice *)
Index(b, i) ==
    IF i < Len(b) THEN Ret(b[i + 1]) ELSE Panic

(* &data[r] on a slice *)
Slice(b, r) ==
    IF r.start <= r.end /\ r.end <= Len(b)
    THEN Ret(SubSeq(b, r.start + 1, r.end))
    ELSE Panic

(* data[i] = v on a mutable slice *)
Store(b, i, v) ==
    IF i < Len(b)
    THEN [panic |-> FALSE, buf |-> [b EXCEPT ![i + 1] = v]]
    ELSE [panic |-> TRUE, buf |-> b]

-----------------------------------------------------------------------------
(* impl Ipv6Option *)

option_type(b) ==
    LET x == Index(b, TYPE)
    IN  IF x.panic THEN Panic ELSE Ret(TypeFrom(x.val))

(* data_len reading the TYPE field *)
data_len_typeField(b) == Index(b, TYPE)

data_len(b) == Index(b, LENGTH)

(* check_len without the `len == field::LENGTH` test *)
check_len_noLengthTest(b) ==
    LET len == Len(b)
    IN  IF len < LENGTH THEN Ret(Truncated)
        ELSE LET t == option_type(b)
             IN  IF t.panic THEN Panic
                 ELSE IF t.val = Pad1 THEN Ret(Ok)
                 ELSE LET l == Index(b, LENGTH)
                      IN  IF l.panic THEN Panic
                          ELSE IF len < DATA(l.val).end THEN Ret(Truncated)
                          ELSE Ret(Ok)

(* check_len comparing against the start of the data field *)
check_len_dataStart(b) ==
    LET len == Len(b)
    IN  IF len < LENGTH THEN Ret(Truncated)
        ELSE LET t == option_type(b)
             IN  IF t.panic THEN Panic
                 ELSE IF t.val = Pad1 THEN Ret(Ok)
                 ELSE IF len = LENGTH THEN Ret(Truncated)
                 ELSE LET l == Index(b, LENGTH)
                      IN  IF l.panic THEN Panic
                          ELSE IF len < DATA(l.val).start THEN Ret(Truncated)
                          ELSE Ret(Ok)

check_len(b) ==
    LET len == Len(b)
    IN  IF len < LENGTH THEN Ret(Truncated)
        ELSE LET t == option_type(b)
             IN  IF t.panic THEN Panic
                 ELSE IF t.val = Pad1 THEN Ret(Ok)
                 ELSE IF len = LENGTH THEN Ret(Truncated)
                 ELSE LET l == Index(b, LENGTH)
                      IN  IF l.panic THEN Panic
                          ELSE IF len < DATA(l.val).end THEN Ret(Truncated)
                          ELSE Ret(Ok)

(* data taking its length from the TYPE field *)
data_typeField(b) ==
    LET len == Index(b, TYPE)
    IN  IF len.panic THEN Panic ELSE Slice(b, DATA(len.val))

data(b) ==
    LET len == data_len(b)
    IN  IF len.panic THEN Panic ELSE Slice(b, DATA(len.val))

set_option_type(b, value) == Store(b, TYPE, TypeInto(value))

(* set_data_len storing into the TYPE field *)
set_data_len_typeField(b, value) == Store(b, TYPE, value)

set_data_len(b, value) == Store(b, LENGTH, value)

data_mut(b) ==
    LET len == data_len(b)
    IN  IF len.panic THEN Panic ELSE Slice(b, DATA(len.val))

-----------------------------------------------------------------------------
(* enum Repr *)
ReprPad1 == [variant |-> "Pad1"]
ReprPadN(length) == [variant |-> "PadN", length |-> length]
ReprUnknown(type_, length, d) ==
    [variant |-> "Unknown", type_ |-> type_, length |-> length, data |-> d]
NoRepr == [variant |-> "none"]

Reprs ==
    {ReprPad1} \cup {ReprPadN(n) : n \in Bytes}
    \cup {ReprUnknown(t, n, d) : t \in Bytes, n \in Bytes, d \in Payloads}

(* parse taking an Unknown option's length from the buffer, not the field *)
parse_restOfBuffer(b) ==
    LET t == option_type(b)
    IN  IF t.panic THEN Panic
        ELSE IF t.val = Pad1 THEN Ret(ReprPad1)
        ELSE IF t.val = PadN
             THEN LET l == data_len(b)
                  IN  IF l.panic THEN Panic ELSE Ret(ReprPadN(l.val))
        ELSE LET l == data_len(b)
                 d == data(b)
             IN  IF l.panic \/ d.panic THEN Panic
                 ELSE Ret(ReprUnknown(t.val.id, Len(b) - 2, d.val))

parse(b) ==
    LET t == option_type(b)
    IN  IF t.panic THEN Panic
        ELSE IF t.val = Pad1 THEN Ret(ReprPad1)
        ELSE IF t.val = PadN
             THEN LET l == data_len(b)
                  IN  IF l.panic THEN Panic ELSE Ret(ReprPadN(l.val))
        ELSE LET l == data_len(b)
                 d == data(b)
             IN  IF l.panic \/ d.panic THEN Panic
                 ELSE Ret(ReprUnknown(t.val.id, l.val, d.val))

(* buffer_len counting a length byte for Pad1 too *)
buffer_len_noPad1(r) ==
    DATA(IF r.variant = "Pad1" THEN 0 ELSE r.length).end

buffer_len(r) ==
    IF r.variant = "Pad1" THEN 1 ELSE DATA(r.length).end

(* the data region left as it was *)
Overwrite_skipped(b, src) == b

(* the copy running on to the end of the buffer, zero-filling *)
Overwrite_toEnd(b, src) ==
    [i \in 1 .. Len(b) |->
        IF i <= 2 THEN b[i]
        ELSE IF i <= 2 + Len(src) THEN src[i - 2] ELSE 0]

(* bytes [2, 2 + Len(src)) of b replaced by src *)
Overwrite(b, src) ==
    [i \in 1 .. Len(b) |->
        IF i > 2 /\ i <= 2 + Len(src) THEN src[i - 2] ELSE b[i]]

Zeros(n) == [i \in 1 .. n |-> 0]

emit(r, b) ==
    IF r.variant = "Pad1" THEN set_option_type(b, Pad1)
    ELSE IF r.variant = "PadN"
    THEN LET s1 == set_option_type(b, PadN)
         IN  IF s1.panic THEN s1
             ELSE LET s2 == set_data_len(s1.buf, r.length)
                  IN  IF s2.panic THEN s2
                      ELSE LET m == data_mut(s2.buf)
                           IN  IF m.panic THEN [panic |-> TRUE, buf |-> s2.buf]
                               ELSE [panic |-> FALSE,
                                     buf |-> Overwrite(s2.buf, Zeros(Len(m.val)))]
    ELSE LET s1 == set_option_type(b, Unknown(r.type_))
         IN  IF s1.panic THEN s1
             ELSE LET s2 == set_data_len(s1.buf, r.length)
                  IN  IF s2.panic THEN s2
                      ELSE LET m == data_mut(s2.buf)
                               src == Slice(r.data, [start |-> 0, end |-> r.length])
                           IN  IF m.panic \/ src.panic \/ Len(m.val) # Len(src.val)
                               THEN [panic |-> TRUE, buf |-> s2.buf]
                               ELSE [panic |-> FALSE,
                                     buf |-> Overwrite(s2.buf, src.val)]

-----------------------------------------------------------------------------
(* One view over one buffer, and the last call made on it.                  *)
(*   buffer    the bytes the view wraps                                    *)
(*   pre       the bytes before the last call                              *)
(*   op        the last call                                               *)
(*   panicked  whether the last call failed a bounds check                 *)
(*   ret       what the last call returned                                 *)
(*   verdict   what the most recent check_len on this view returned        *)
(*   written   whether a setter or emit ran since that check_len           *)
(*   emitted   the representation emit wrote, while no setter ran since    *)
VARIABLES buffer, pre, op, panicked, ret, verdict, written, emitted

vars == <<buffer, pre, op, panicked, ret, verdict, written, emitted>>

NoRet == "none"

(* Ipv6Option::new(buffer), for any buffer *)
Init ==
    /\ buffer \in Buffers
    /\ pre = buffer
    /\ op = "new"
    /\ panicked = FALSE
    /\ ret = NoRet
    /\ verdict = "none"
    /\ written = FALSE
    /\ emitted = NoRepr

(* No call can follow a failed bounds check, nor a new_checked that       *)
(* returned Err instead of the view.                                       *)
Usable == ~panicked /\ ~(op = "new_checked" /\ verdict # Ok)

(* Ipv6Option::new_checked(buffer): new, then check_len on the new view *)
NewChecked ==
    /\ op = "new"
    /\ LET c == check_len(buffer)
       IN  /\ panicked' = c.panic
           /\ ret' = c.val
           /\ verdict' = IF c.panic THEN "none" ELSE c.val
    /\ op' = "new_checked"
    /\ written' = FALSE
    /\ pre' = buffer
    /\ UNCHANGED <<buffer, emitted>>

(* A call that only reads the buffer. *)
Read(name, r) ==
    /\ Usable
    /\ op' = name
    /\ panicked' = r.panic
    /\ ret' = r.val
    /\ pre' = buffer
    /\ UNCHANGED <<buffer, emitted>>

(* A call that writes the buffer. *)
Write(name, r) ==
    /\ Usable
    /\ op' = name
    /\ panicked' = r.panic
    /\ ret' = NoRet
    /\ pre' = buffer
    /\ buffer' = r.buf
    /\ written' = TRUE
    /\ UNCHANGED verdict

CheckLen ==
    /\ Read("check_len", check_len(buffer))
    /\ verdict' = IF check_len(buffer).panic THEN verdict ELSE check_len(buffer).val
    /\ written' = FALSE

OptionType ==
    /\ Read("option_type", option_type(buffer))
    /\ UNCHANGED <<verdict, written>>

DataLen ==
    /\ Read("data_len", data_len(buffer))
    /\ UNCHANGED <<verdict, written>>

Data ==
    /\ Read("data", data(buffer))
    /\ UNCHANGED <<verdict, written>>

DataMut ==
    /\ Read("data_mut", data_mut(buffer))
    /\ UNCHANGED <<verdict, written>>

Parse ==
    /\ Read("parse", parse(buffer))
    /\ UNCHANGED <<verdict, written>>

BufferLen ==
    /\ op = "parse"
    /\ Read("buffer_len", Ret(buffer_len(ret)))
    /\ UNCHANGED <<verdict, written>>

SetOptionType ==
    /\ \E t \in Types : Write("set_option_type", set_option_type(buffer, t))
    /\ emitted' = NoRepr

SetDataLen ==
    /\ \E v \in Bytes : Write("set_data_len", set_data_len(buffer, v))
    /\ emitted' = NoRepr

(* Repr::emit, on a view newly wrapped around the destination buffer, as  *)
(* test_option_emit calls it.                                              *)
Emit ==
    /\ op = "new"
    /\ \E r \in Reprs :
        /\ Write("emit", emit(r, buffer))
        /\ emitted' = r

Next ==
    \/ NewChecked
    \/ CheckLen
    \/ OptionType
    \/ DataLen
    \/ Data
    \/ DataMut
    \/ Parse
    \/ BufferLen
    \/ SetOptionType
    \/ SetDataLen
    \/ Emit

Spec == Init /\ [][Next]_vars

-----------------------------------------------------------------------------
(* Vocabulary of the properties. *)

(* The view holds a check_len verdict of Ok and nothing was written since. *)
Validated == verdict = Ok /\ ~written

(* The type byte of a buffer that has one. *)
IsPad1(b) == Len(b) >= 1 /\ b[1] = 0
NotPad1(b) == Len(b) >= 1 /\ b[1] # 0

(* The length rule of the option format. *)
LongEnough(b) ==
    /\ Len(b) >= 1
    /\ \/ b[1] = 0
       \/ Len(b) >= 2 /\ Len(b) >= 2 + b[2]

(* The wire image of a representation (RFC 8200, section 4.2). *)
WireImage(r) ==
    IF r.variant = "Pad1" THEN <<0>>
    ELSE IF r.variant = "PadN" THEN <<1, r.length>> \o [i \in 1 .. r.length |-> 0]
    ELSE <<r.type_, r.length>> \o SubSeq(r.data, 1, r.length)

(* emit's requirement on an Unknown representation's borrowed data. *)
DataCovers(r) == r.variant = "Unknown" => Len(r.data) >= r.length

(* The representation a well-formed buffer stands for. *)
Decoded(b) ==
    IF b[1] = 0 THEN ReprPad1
    ELSE IF b[1] = 1 THEN ReprPadN(b[2])
    ELSE ReprUnknown(b[1], b[2], SubSeq(b, 3, 2 + b[2]))

-----------------------------------------------------------------------------
(* C1: check_len returns Ok exactly when the buffer is non-empty and either *)
(* its type byte is Pad1 or it holds a length byte and 2 + that many bytes;  *)
(* otherwise it returns Truncated; it never fails a bounds check and         *)
(* returns nothing else.                                                     *)
C1_CheckLenContract ==
    op \in {"check_len", "new_checked"} =>
        /\ ~panicked
        /\ ret \in {Ok, Truncated}
        /\ (ret = Ok) <=> LongEnough(pre)

C1_Witness ==
    /\ op = "check_len"
    /\ ret = Truncated
    /\ Len(pre) = 3
    /\ pre[1] # 0
    /\ pre[2] = 2

C3_RoundTrip ==
    (/\ op = "parse"
     /\ emitted.variant \in {"PadN", "Unknown"}
     /\ Len(buffer) = buffer_len(emitted)
     /\ (emitted.variant = "Unknown" => Len(emitted.data) = emitted.length))
    => (~panicked /\ ret = emitted)

(* C3 amended: the same, for PadN and for Unknown representations whose    *)
(* type byte is neither 0 nor 1.                                           *)
C3_RoundTripUnknownType ==
    (/\ op = "parse"
     /\ emitted.variant \in {"PadN", "Unknown"}
     /\ Len(buffer) = buffer_len(emitted)
     /\ (emitted.variant = "Unknown" =>
            /\ Len(emitted.data) = emitted.length
            /\ emitted.type_ \notin {0, 1}))
    => (~panicked /\ ret = emitted)

C3_Witness ==
    /\ op = "parse"
    /\ ~panicked
    /\ emitted.variant = "Unknown"
    /\ emitted.length = 2
    /\ Len(emitted.data) = 2
    /\ Len(buffer) = 4
    /\ ret = emitted

(* C4: after emit into a buffer of exactly buffer_len bytes, whatever it   *)
(* held before, the buffer is the wire image of the representation.        *)
C4_EmitWireImage ==
    (/\ op = "emit"
     /\ Len(pre) = buffer_len(emitted)
     /\ DataCovers(emitted))
    => (~panicked /\ buffer = WireImage(emitted))

C4_Witness ==
    /\ op = "emit"
    /\ ~panicked
    /\ emitted.variant = "PadN"
    /\ emitted.length = 2
    /\ Len(pre) = 4
    /\ pre[3] = 255
    /\ pre[4] = 1
    /\ buffer = <<1, 2, 0, 0>>

(* C5: on a buffer that passed check_len, parse completes and returns Pad1 *)
(* for type 0, PadN(b[1]) for type 1, and Unknown with the type byte, the  *)
(* length byte and the bytes [2, 2 + b[1]) otherwise.                      *)
C5_ParseValidated ==
    (Validated /\ op = "parse") => (~panicked /\ ret = Decoded(pre))

C5_Witness ==
    /\ Validated
    /\ op = "parse"
    /\ ~panicked
    /\ ret.variant = "Unknown"
    /\ ret.length = 1
    /\ Len(pre) = 4

C7_UnknownWellFormed ==
    (Validated /\ op = "parse" /\ ~panicked /\ ret.variant = "Unknown") =>
        /\ ret.type_ \notin {0, 1}
        /\ ret.length = Len(ret.data)
        /\ ret.length = pre[2]

C7_Witness ==
    /\ Validated
    /\ op = "parse"
    /\ ~panicked
    /\ ret.variant = "Unknown"
    /\ ret.type_ = 255
    /\ Len(ret.data) = 2

(* C8: an Ok verdict is kept, not re-established, across set_option_type   *)
(* and set_data_len: with the type byte not Pad1 after the writes, data    *)
(* and data_mut stay in bounds exactly when check_len run again on the     *)
(* bytes as they now are returns Ok, and fail when it returns Truncated.   *)
C8_VerdictNotTracked ==
    (verdict = Ok /\ written /\ NotPad1(buffer)) =>
        /\ data(buffer).panic <=> check_len(buffer) = Ret(Truncated)
        /\ data_mut(buffer).panic <=> check_len(buffer) = Ret(Truncated)
        /\ ~data(buffer).panic <=> check_len(buffer) = Ret(Ok)
        /\ op \in {"data", "data_mut"} =>
               (panicked <=> check_len(buffer) = Ret(Truncated))

C8_Witness ==
    /\ verdict = Ok
    /\ written
    /\ op = "data"
    /\ panicked
    /\ Len(buffer) >= 2
    /\ check_len(buffer) = Ret(Truncated)

(* C9: emit into a buffer of at least buffer_len bytes, with the data of   *)
(* an Unknown at least as long as its length, completes and leaves every   *)
(* byte at offset buffer_len or beyond as it was.                          *)
C9_EmitFrame ==
    (/\ op = "emit"
     /\ Len(pre) >= buffer_len(emitted)
     /\ DataCovers(emitted))
    => /\ ~panicked
       /\ Len(buffer) = Len(pre)
       /\ \A i \in 1 .. Len(pre) :
              i > buffer_len(emitted) => buffer[i] = pre[i]

C9_Witness ==
    /\ op = "emit"
    /\ ~panicked
    /\ emitted.variant = "Unknown"
    /\ emitted.length = 1
    /\ Len(pre) = 4
    /\ pre[4] = 255
    /\ buffer[4] = 255
    /\ buffer[3] # pre[3]

(* C10: the representation parsed from a buffer that passed check_len has  *)
(* 1 <= buffer_len <= buffer length: 1 for Pad1, 2 + length otherwise.     *)
C10_BufferLenWithinWindow ==
    (Validated /\ op = "buffer_len") =>
        /\ ~panicked
        /\ 1 <= ret
        /\ ret <= Len(buffer)
        /\ ret = IF buffer[1] = 0 THEN 1 ELSE 2 + buffer[2]

C10_Witness ==
    /\ Validated
    /\ op = "buffer_len"
    /\ ret = 3
    /\ Len(buffer) = 4

====
